---- MODULE Spec2Model ----
(***************************************************************************)
(* A model of the grid layout library in src/src/lib.rs: a Grid collects   *)
(* cells, fit_into_width searches for a row count whose columns fit in a   *)
(* maximum width, and the resulting Display is rendered by fmt.            *)
(*                                                                         *)
(* A cell's text is represented by its display width (the value that       *)
(* UnicodeWidthStr::width returned when the cell was built); a Text        *)
(* filling is represented by the display width of its separator.           *)
(***************************************************************************)
EXTENDS Integers, Sequences, FiniteSets

\* ------------------------------------------------------------------ bounds
\* Most cells a grid holds when cells are built with Cell::from.
MaxCells == 4
\* Most cells a grid holds when the caller also sets each cell's alignment.
MaxAlignedCells == 3
\* Widest cell text.
MaxCellWidth == 2
\* Widest filling (Spaces(n), or the display width of a Text separator).
MaxFillingWidth == 2
\* Largest maximum_width handed to fit_into_width.
MaxMaximumWidth == 5

VARIABLES
    options,             \* Grid.options: [filling, direction]
    cells,               \* Grid.cells, in insertion order
    widest_cell_length,  \* Grid.widest_cell_length
    width_sum,           \* Grid.width_sum
    cell_count,          \* Grid.cell_count
    pc,                  \* "built": no Display is held; "fitted": fit_into_width
                         \* has returned; "rendered": fmt has run on the Display
    maximum_width,       \* the argument of the last fit_into_width call
    display,             \* what the last fit_into_width returned (an Option)
    output               \* what fmt wrote for the Display

vars == <<options, cells, widest_cell_length, width_sum, cell_count,
          pc, maximum_width, display, output>>

grid_vars == <<options, cells, widest_cell_length, width_sum, cell_count>>

\* ------------------------------------------------------------------ types
Alignment == {"Left", "Right"}

Direction == {"LeftToRight", "TopToBottom"}

\* Filling::Spaces(width) and Filling::Text(text), the text kept as its width.
Filling ==
    [kind : {"Spaces", "Text"}, width : 0..MaxFillingWidth]

\* Option<T>: None is the empty sequence, Some(x) the one-element sequence.
None == <<>>

Some(x) == <<x>>

\* iter().sum::<Width>()
RECURSIVE sum(_)
sum(widths) ==
    IF widths = <<>> THEN 0 ELSE widths[1] + sum(Tail(widths))

\* impl From<&str> for Cell: the width is measured, the alignment is Left.
Cell_from(width) == [width |-> width, alignment |-> "Left"]

\* A cell whose public alignment field the caller has set.
Cell_aligned(width, alignment) == [width |-> width, alignment |-> alignment]

\* Filling::width
Filling_width ==
    IF options.filling.kind = "Spaces"
    THEN options.filling.width
    ELSE options.filling.width

\* Dimensions::total_width
total_width(dimensions, separator_width) ==
    IF dimensions.widths = <<>>
    THEN 0
    ELSE LET values == sum(dimensions.widths)
             separators == separator_width * (Len(dimensions.widths) - 1)
         IN  values + separators

\* ------------------------------------------------------------------ Grid
\* Grid::new
Init ==
    /\ options \in [filling : Filling, direction : Direction]
    /\ cells = <<>>
    /\ widest_cell_length = 0
    /\ width_sum = 0
    /\ cell_count = 0
    /\ pc = "built"
    /\ maximum_width = 0
    /\ display = None
    /\ output = <<>>

\* Grid::add with the comparison reversed: the widest length is never raised.
add_never_raises(cell) ==
    /\ widest_cell_length' =
           IF cell.width < widest_cell_length THEN cell.width ELSE widest_cell_length
    /\ width_sum' = width_sum + cell.width
    /\ cell_count' = cell_count + 1
    /\ cells' = Append(cells, cell)
    /\ pc' = "built"
    /\ maximum_width' = 0
    /\ display' = None
    /\ output' = <<>>
    /\ UNCHANGED options

\* Grid::add.  It takes the grid by &mut, so no Display of the grid is alive
\* across the call: the one held, if any, has been dropped.
add(cell) ==
    /\ widest_cell_length' =
           IF cell.width > widest_cell_length THEN cell.width ELSE widest_cell_length
    /\ width_sum' = width_sum + cell.width
    /\ cell_count' = cell_count + 1
    /\ cells' = Append(cells, cell)
    /\ pc' = "built"
    /\ maximum_width' = 0
    /\ display' = None
    /\ output' = <<>>
    /\ UNCHANGED options

\* Grid::column_widths, the match on the direction.
column_index(index, num_lines, num_columns) ==
    IF options.direction = "LeftToRight"
    THEN index % num_columns
    ELSE index \div num_lines

\* The fold max(widths[index], cell.width) over a column's cells, from 0.
widest_of(indexes) ==
    IF indexes = {}
    THEN 0
    ELSE LET i == CHOOSE i \in indexes : \A j \in indexes : cells[j].width <= cells[i].width
         IN  cells[i].width

\* Grid::column_widths
column_widths(num_lines, num_columns) ==
    [num_lines |-> num_lines,
     widths |-> [c \in 1..num_columns |->
                    widest_of({i \in 1..Len(cells) :
                                  column_index(i - 1, num_lines, num_columns) = c - 1})]]

\* cells.sort_unstable_by(|a, b| b.width.cmp(&a.width)): widest first.  The
\* order of equal widths is not fixed by the sort; only widths are read later.
RECURSIVE sort_by_width_reversed(_)
sort_by_width_reversed(s) ==
    IF s = <<>>
    THEN <<>>
    ELSE LET i == CHOOSE i \in 1..Len(s) : \A j \in 1..Len(s) : s[j].width <= s[i].width
         IN  <<s[i]>> \o sort_by_width_reversed(
                 SubSeq(s, 1, i - 1) \o SubSeq(s, i + 1, Len(s)))

\* Grid::theoretical_max_num_lines, the test of one cell of the packing.
cell_packs(cell_width, col_total_width_so_far, maximum) ==
    cell_width + col_total_width_so_far <= maximum

\* The running total with the filling counted twice after a packed cell.
packed_total_counts_filling_twice(col_total_width_so_far, cell_width) ==
    col_total_width_so_far + cell_width + 2 * Filling_width

\* Grid::theoretical_max_num_lines, the running total after a packed cell: the
\* cell's width, then the filling's.
packed_total(col_total_width_so_far, cell_width) ==
    col_total_width_so_far + cell_width + Filling_width

\* Grid::theoretical_max_num_lines, the loop over the sorted cells from cell k.
RECURSIVE packing_loop(_, _, _, _, _)
packing_loop(sorted, k, theoretical_min_num_cols, col_total_width_so_far, maximum) ==
    IF k > Len(sorted)
    THEN 1
    ELSE IF cell_packs(sorted[k].width, col_total_width_so_far, maximum)
         THEN packing_loop(sorted, k + 1, theoretical_min_num_cols + 1,
                           packed_total(col_total_width_so_far, sorted[k].width),
                           maximum)
         ELSE LET lines == cell_count \div theoretical_min_num_cols
              IN  IF cell_count % theoretical_min_num_cols # 0
                  THEN lines + 1
                  ELSE lines

\* Grid::theoretical_max_num_lines
theoretical_max_num_lines(maximum) ==
    packing_loop(sort_by_width_reversed(cells), 1, 0, 0, maximum)

\* The number of columns without the rounding up.
num_columns_rounded_down(num_lines) ==
    cell_count \div num_lines

\* Grid::width_dimensions: the number of cells divided by the number of lines,
\* rounded up.
num_columns_for(num_lines) ==
    LET num_columns == cell_count \div num_lines
    IN  IF cell_count % num_lines # 0 THEN num_columns + 1 ELSE num_columns

\* The available space with the separators left in.
adjusted_width_keeps_separators(maximum, total_separator_width) ==
    maximum

\* Grid::width_dimensions: remove the separator width from the available space.
adjusted_width(maximum, total_separator_width) ==
    maximum - total_separator_width

\* Grid::width_dimensions, the loop `for num_lines in (1 .. max).rev()` from
\* num_lines down, with the smallest dimensions found so far.
RECURSIVE search_loop(_, _, _)
search_loop(num_lines, smallest_dimensions_yet, maximum) ==
    IF num_lines < 1
    THEN None
    ELSE LET num_columns == num_columns_for(num_lines)
             total_separator_width == (num_columns - 1) * Filling_width
         IN  IF maximum < total_separator_width
             THEN search_loop(num_lines - 1, smallest_dimensions_yet, maximum)
             ELSE LET potential_dimensions == column_widths(num_lines, num_columns)
                  IN  IF sum(potential_dimensions.widths)
                             < adjusted_width(maximum, total_separator_width)
                      THEN search_loop(num_lines - 1, Some(potential_dimensions), maximum)
                      ELSE smallest_dimensions_yet

\* The first test of width_dimensions, refusing an exact fit as well.
largest_cell_too_wide_or_equal(maximum) ==
    widest_cell_length >= maximum

\* Grid::width_dimensions: the largest cell is wider than the maximum width.
largest_cell_too_wide(maximum) ==
    widest_cell_length > maximum

\* Grid::width_dimensions
width_dimensions(maximum) ==
    IF largest_cell_too_wide(maximum)
    THEN None
    ELSE IF cell_count = 0
    THEN Some([num_lines |-> 0, widths |-> <<>>])
    ELSE IF cell_count = 1
    THEN Some([num_lines |-> 1, widths |-> <<cells[1].width>>])
    ELSE LET theoretical_max == theoretical_max_num_lines(maximum)
         IN  IF theoretical_max = 1
             THEN Some([num_lines |-> 1,
                        widths |-> [i \in 1..Len(cells) |-> cells[i].width]])
             ELSE search_loop(theoretical_max - 1, None, maximum)

\* Grid::fit_into_width: the dimensions wrapped in a Display of this grid.
fit_into_width(maximum) ==
    LET dims == width_dimensions(maximum)
    IN  IF dims = None THEN None ELSE Some([dimensions |-> dims[1]])

\* ------------------------------------------------------------------ Display
\* Display::width
Display_width(d) == total_width(d.dimensions, Filling_width)

\* Display::row_count
row_count(d) == d.dimensions.num_lines

\* is_complete asking for at least one column as well.
is_complete_needs_a_column(d) ==
    /\ d.dimensions.widths # <<>>
    /\ \A i \in 1..Len(d.dimensions.widths) : d.dimensions.widths[i] > 0

\* Display::is_complete
is_complete(d) ==
    \A i \in 1..Len(d.dimensions.widths) : d.dimensions.widths[i] > 0

\* The cell of slot (x, y) with the column stride in place of the line stride.
cell_number_column_stride(d, x, y) ==
    IF options.direction = "LeftToRight"
    THEN y * Len(d.dimensions.widths) + x
    ELSE y + Len(d.dimensions.widths) * x

\* fmt: the cell of slot (x, y), the match on the direction.
cell_number(d, x, y) ==
    IF options.direction = "LeftToRight"
    THEN y * Len(d.dimensions.widths) + x
    ELSE y + d.dimensions.num_lines * x

\* fmt: whether writing cell num in column x goes through.  In a column before
\* the last the assertion must hold; in the last column a right-aligned cell
\* subtracts its width from the column's (an unsigned subtraction).
write_goes_through(d, num, x) ==
    LET cell == cells[num + 1]
        width == d.dimensions.widths[x + 1]
    IN  IF x = Len(d.dimensions.widths) - 1
        THEN cell.alignment = "Left" \/ width >= cell.width
        ELSE width >= cell.width

\* fmt: what is written for cell num in column x: the spaces before and after
\* the contents (pad_string, spaces) and the width of the separator text.
written(d, num, x) ==
    LET cell == cells[num + 1]
        width == d.dimensions.widths[x + 1]
        blank == [num |-> num, x |-> x, before |-> 0, after |-> 0, separator |-> 0]
    IN  IF x = Len(d.dimensions.widths) - 1
        THEN IF cell.alignment = "Left"
             THEN blank
             ELSE [blank EXCEPT !.before = width - cell.width]
        ELSE IF options.filling.kind = "Spaces" /\ cell.alignment = "Left"
             THEN [blank EXCEPT !.after = width - cell.width + options.filling.width]
        ELSE IF options.filling.kind = "Spaces"
             THEN [blank EXCEPT !.before = width - cell.width,
                                !.after = options.filling.width]
        ELSE IF cell.alignment = "Left"
             THEN [blank EXCEPT !.after = width - cell.width,
                                !.separator = options.filling.width]
             ELSE [blank EXCEPT !.before = width - cell.width,
                                !.separator = options.filling.width]

\* impl fmt::Display for Display: the two loops from slot (x, y) on, with the
\* finished lines and the line being written.  A failed assertion or
\* subtraction panics and leaves what was written so far.
RECURSIVE fmt_loop(_, _, _, _, _)
fmt_loop(d, y, x, lines, line) ==
    IF y >= d.dimensions.num_lines
    THEN [panicked |-> FALSE, lines |-> lines]
    ELSE IF x >= Len(d.dimensions.widths)
    THEN fmt_loop(d, y + 1, 0, Append(lines, line), <<>>)
    ELSE LET num == cell_number(d, x, y)
         IN  IF num >= Len(cells)
             THEN fmt_loop(d, y, x + 1, lines, line)
             ELSE IF ~write_goes_through(d, num, x)
             THEN [panicked |-> TRUE, lines |-> Append(lines, line)]
             ELSE fmt_loop(d, y, x + 1, lines, Append(line, written(d, num, x)))

\* impl fmt::Display for Display
fmt(d) == fmt_loop(d, 0, 0, <<>>, <<>>)

\* ------------------------------------------------------------------ actions
\* grid.add(Cell::from(text))
Add ==
    \E width \in 0..MaxCellWidth :
        /\ Len(cells) < MaxCells
        /\ add(Cell_from(width))

\* grid.add(cell) for a cell whose alignment the caller chose.
AddAligned ==
    \E width \in 0..MaxCellWidth, alignment \in Alignment :
        /\ Len(cells) < MaxAlignedCells
        /\ add(Cell_aligned(width, alignment))

\* grid.fit_into_width(maximum)
FitIntoWidth ==
    \E maximum \in 0..MaxMaximumWidth :
        /\ pc' = "fitted"
        /\ maximum_width' = maximum
        /\ display' = fit_into_width(maximum)
        /\ output' = <<>>
        /\ UNCHANGED grid_vars

\* format!("{}", display) on the Display that fit_into_width returned.
Render ==
    /\ pc = "fitted"
    /\ display # None
    /\ pc' = "rendered"
    /\ output' = fmt(display[1])
    /\ UNCHANGED <<grid_vars, maximum_width, display>>

Next == Add \/ FitIntoWidth \/ Render

Spec == Init /\ [][Next]_vars

NextAligned == AddAligned \/ FitIntoWidth \/ Render

SpecAligned == Init /\ [][NextAligned]_vars

\* ------------------------------------------------------------------ claims
\* fit_into_width has returned and its result is the one held.
Fitted == pc \in {"fitted", "rendered"}

\* The widths of the cells in insertion order.
cell_widths == [i \in 1..Len(cells) |-> cells[i].width]

\* A layout of n rows as the claims describe it: ceil(cell_count / n) columns,
\* each as wide as the widest cell the direction assigns to it.
rows_total_width(n) ==
    LET num_columns == (cell_count + n - 1) \div n
    IN  sum(column_widths(n, num_columns).widths) + (num_columns - 1) * Filling_width

\* The feasibility test of the search for the candidate of n rows.
candidate_passes(n, maximum) ==
    LET num_columns == (cell_count + n - 1) \div n
        total_separator_width == (num_columns - 1) * Filling_width
    IN  /\ maximum >= total_separator_width
        /\ sum(column_widths(n, num_columns).widths) < maximum - total_separator_width

\* C1: whenever fit_into_width(max_width) returns a layout, its total rendered
\* width (Display::width) does not exceed max_width.
C1_WidthWithinMaximum ==
    (Fitted /\ display # None) => Display_width(display[1]) <= maximum_width

\* C1 witness: a layout of several rows and columns with a filling was returned.
C1_Witness ==
    /\ Fitted
    /\ display # None
    /\ row_count(display[1]) >= 2
    /\ Len(display[1].dimensions.widths) >= 2
    /\ Filling_width >= 1
    /\ Display_width(display[1]) >= 3

\* C2: fit_into_width returns the minimum number of rows that fits: when it
\* returns a layout of L rows, no layout of n < L rows is within max_width.
C2_MinimumRows ==
    (Fitted /\ display # None) =>
        \A n \in 1..(row_count(display[1]) - 1) : rows_total_width(n) > maximum_width

\* C3: monotonicity in the width: if fit_into_width(W) returns a layout, then
\* for every W2 > W fit_into_width(W2) returns a layout of no more rows.
C3_MonotoneInWidth ==
    (Fitted /\ display # None) =>
        \A W2 \in (maximum_width + 1)..MaxMaximumWidth :
            /\ fit_into_width(W2) # None
            /\ row_count(fit_into_width(W2)[1]) <= row_count(display[1])

\* C4: if any cell ever added is wider than max_width, fit_into_width(max_width)
\* returns no result, whatever the other cells, the direction and the filling.
C4_TooWideCellFails ==
    (Fitted /\ \E i \in 1..Len(cells) : cells[i].width > maximum_width) =>
        display = None

\* C4 witness: the first of several cells is too wide, the last one is not, and
\* the fit failed.
C4_Witness ==
    /\ Fitted
    /\ Len(cells) >= 3
    /\ cells[1].width > maximum_width
    /\ cells[Len(cells)].width <= maximum_width
    /\ display = None

\* C5: infeasibility is the only failure mode: when no cell is wider than
\* max_width, fit_into_width returns no result only if no candidate n of the
\* search (theoretical_max_lines - 1 down to 1) passes the feasibility test.
C5_FailsOnlyWhenInfeasible ==
    (/\ Fitted
     /\ \A i \in 1..Len(cells) : cells[i].width <= maximum_width
     /\ display = None) =>
        \A n \in 1..(theoretical_max_num_lines(maximum_width) - 1) :
            ~candidate_passes(n, maximum_width)

\* C6: a grid of exactly one cell of width w fits into every max_width >= w
\* (max_width = w included) with one row, column widths [w] and total width w.
C6_SingleCell ==
    (Fitted /\ cell_count = 1 /\ Len(cells) = 1 /\ maximum_width >= cells[1].width) =>
        /\ display = Some([dimensions |->
                              [num_lines |-> 1, widths |-> <<cells[1].width>>]])
        /\ row_count(display[1]) = 1
        /\ Display_width(display[1]) = cells[1].width

\* C6 witness: one cell was fitted into exactly its own width.
C6_Witness ==
    /\ Fitted
    /\ cell_count = 1
    /\ cells[1].width >= 1
    /\ maximum_width = cells[1].width
    /\ display # None

\* C7: a grid without cells fits into every max_width >= 0 with no rows, no
\* columns, total width 0 and is_complete() true.
C7_EmptyGrid ==
    (Fitted /\ cell_count = 0) =>
        /\ display # None
        /\ row_count(display[1]) = 0
        /\ display[1].dimensions.widths = <<>>
        /\ Display_width(display[1]) = 0
        /\ is_complete(display[1])

\* C7 witness: the empty grid was fitted into width 0.
C7_Witness ==
    /\ Fitted
    /\ cell_count = 0
    /\ cells = <<>>
    /\ maximum_width = 0
    /\ display # None

\* C8 as stated: for any successful fit, the empty grid included,
\* num_columns * num_lines >= cell_count > (num_columns - 1) * num_lines.
C8_AccountingAnyCount ==
    (Fitted /\ display # None) =>
        LET num_columns == Len(display[1].dimensions.widths)
            num_lines == row_count(display[1])
        IN  /\ num_columns * num_lines >= cell_count
            /\ cell_count > (num_columns - 1) * num_lines

\* C8 amended: for any successful fit of a grid of at least one cell,
\* num_columns * num_lines >= cell_count > (num_columns - 1) * num_lines.
C8_AccountingNonEmpty ==
    (Fitted /\ display # None /\ cell_count >= 1) =>
        LET num_columns == Len(display[1].dimensions.widths)
            num_lines == row_count(display[1])
        IN  /\ num_columns * num_lines >= cell_count
            /\ cell_count > (num_columns - 1) * num_lines

\* C8 witness: a layout of several rows whose last column is not full.
C8_Witness ==
    /\ Fitted
    /\ display # None
    /\ row_count(display[1]) >= 2
    /\ Len(display[1].dimensions.widths) >= 2
    /\ cell_count < Len(display[1].dimensions.widths) * row_count(display[1])

\* C9: with at least two cells, if the sum of all cell widths plus
\* (cell_count - 1) fillings is at most max_width, the row bound of the packing
\* is 1 and the fit is one row whose column widths are the cells' own widths
\* in insertion order.
C9_SingleRow ==
    (/\ Fitted
     /\ cell_count >= 2
     /\ sum(cell_widths) + (cell_count - 1) * Filling_width <= maximum_width) =>
        /\ theoretical_max_num_lines(maximum_width) = 1
        /\ display = Some([dimensions |-> [num_lines |-> 1, widths |-> cell_widths]])

\* C9 witness: three cells of different widths and their fillings take exactly
\* max_width, and a layout was returned.
C9_Witness ==
    /\ Fitted
    /\ cell_count >= 3
    /\ Filling_width >= 1
    /\ cells[1].width # cells[2].width
    /\ sum(cell_widths) + (cell_count - 1) * Filling_width = maximum_width
    /\ display # None

\* The places (line, position) of the cells that fmt wrote.
written_places ==
    UNION {{<<y, j>> : j \in 1..Len(output.lines[y])} : y \in 1..Len(output.lines)}

\* C10: rendering a returned layout visits the slots of num_lines lines and
\* num_columns columns, emits every cell exactly once, each in the column the
\* fit assigned it to, whose width is at least the cell's: the assertion holds
\* and no padding subtraction underflows.
C10_RenderEmitsEachCellOnce ==
    (pc = "rendered") =>
        /\ ~output.panicked
        /\ Len(output.lines) = row_count(display[1])
        /\ \A num \in 0..(Len(cells) - 1) :
               Cardinality({p \in written_places :
                               output.lines[p[1]][p[2]].num = num}) = 1
        /\ \A p \in written_places :
               LET w == output.lines[p[1]][p[2]]
               IN  /\ w.num \in 0..(Len(cells) - 1)
                   /\ w.x \in 0..(Len(display[1].dimensions.widths) - 1)
                   /\ w.x = column_index(w.num, row_count(display[1]),
                                         Len(display[1].dimensions.widths))
                   /\ display[1].dimensions.widths[w.x + 1] >= cells[w.num + 1].width
                   /\ w.before >= 0
                   /\ w.after >= 0

\* C10 witness: a layout of two rows with a short last row was rendered top to
\* bottom, with a right-aligned cell in it.
C10_Witness ==
    /\ pc = "rendered"
    /\ options.direction = "TopToBottom"
    /\ row_count(display[1]) >= 2
    /\ cell_count < Len(display[1].dimensions.widths) * row_count(display[1])
    /\ \E i \in 1..Len(cells) : cells[i].alignment = "Right"
    /\ Len(output.lines) = 2

====
